---------------------------- MODULE Spec2Model ----------------------------
(***************************************************************************)
(* The Pratt parser of src/src/parser/mod.rs as a stack machine.           *)
(*                                                                         *)
(* The parser owns a one-token-lookahead token stream (tokens, pos).  Each *)
(* Rust function is a frame on `stack`; a frame's pc names the statement   *)
(* the function resumes at after a call returns.  `ret` carries the Ok     *)
(* value of the call that returned last, `err` the Err value that is being *)
(* propagated by the `?` operators, `result` what parse() finally returns. *)
(***************************************************************************)
EXTENDS Integers, Sequences, FiniteSets, TLC

VARIABLES tokens, pos, stack, ret, err, result

vars == <<tokens, pos, stack, ret, err, result>>

(***************************************************************************)
(* Bounds of the input families.                                           *)
(***************************************************************************)
\* operators, prefix operators and pairs of parentheses in a generated expression
MaxNodes == 3
\* length of a freely chosen token sequence
MaxFree == 3
\* arguments of a generated call, parameters of a generated function literal
MaxItems == 2

(***************************************************************************)
(* Tokens, spans and the source text.                                      *)
(***************************************************************************)
InfixKinds ==
  {"Plus", "Minus", "Asterisk", "Slash", "GreaterThan", "LessThan",
   "GreaterThanOrEqual", "LessThanOrEqual", "DoubleEqual", "NotEqual"}

TokenKinds ==
  InfixKinds \cup
  {"IntLiteral", "True", "False", "Unit", "Identifier", "Fun", "LParen",
   "RParen", "LBrace", "RBrace", "Comma", "Colon", "Semicolon", "Tilde",
   "ExclamationMark", "SingleEqual", "Eof"}

from_range(start, end) == [start |-> start, end |-> end]

\* The lexer's output for a source text whose i-th lexeme has kind ks[i]:
\* every lexeme is one byte wide and one blank separates two lexemes.
Lex(ks) ==
  [i \in 1..Len(ks) |-> [kind |-> ks[i], span |-> from_range(2 * (i - 1), 2 * i - 1)]]

Names ==
  <<"a", "b", "c", "d", "e", "f", "g", "h", "i", "j", "k", "l", "m", "n", "o", "p">>

\* Span::slice on the parser's copy of the source: the lexeme at `span`.
\* The i-th lexeme, when an integer literal, is the numeral of i; when an
\* identifier, the i-th name.
slice(span) ==
  LET i == (span.start \div 2) + 1
  IN  IF tokens[i].kind = "IntLiteral" THEN i ELSE Names[((i - 1) % Len(Names)) + 1]

(***************************************************************************)
(* Errors (enum Error).                                                    *)
(***************************************************************************)
Error(tag, text, got) == [tag |-> tag, text |-> text, got |-> got]

NoPrefixParseFn(kind) == Error("NoPrefixParseFn", "", kind)

expected(what, got) == Error("Expected", what, got)

syntax_err(s, kind) == Error("Syntax", "syntax error: " \o s, kind)

UnexpectedEof == Error("UnexpectedEof", "", "Eof")

(***************************************************************************)
(* The AST (module ast).                                                   *)
(***************************************************************************)
Expression(kind, span) == [kind |-> kind, span |-> span]

NoSpan == from_range(0, 0)

NoValue == Expression([tag |-> "None"], NoSpan)

\* Precedence derives Ord from its declaration order.
PrecRank(p) ==
  CASE p = "Lowest" -> 0
    [] p = "Equality" -> 1
    [] p = "Comparison" -> 2
    [] p = "Sum" -> 3
    [] p = "Product" -> 4
    [] p = "Prefix" -> 5
    [] p = "Group" -> 6

(***************************************************************************)
(* The token stream: Peekable<Lexer>.                                      *)
(***************************************************************************)
\* self.lexer.peek().is_some() at position p
peek_is_some(p) == p <= Len(tokens)

peek_kind(p) == IF peek_is_some(p) THEN tokens[p].kind ELSE "Eof"

\* What a token-consuming helper returns: the Result, the consumed token's
\* span and text, and the stream position it leaves behind.
Consumed(p, span, text) ==
  [ok |-> TRUE, pos |-> p, span |-> span, text |-> text, err |-> UnexpectedEof]

Refused(p, e) ==
  [ok |-> FALSE, pos |-> p, span |-> NoSpan, text |-> "", err |-> e]

expect_token(p, kind) ==
  IF ~peek_is_some(p)
    THEN Refused(p, UnexpectedEof)
    ELSE IF tokens[p].kind # kind
      THEN Refused(p + 1, syntax_err("unexpected token: ", tokens[p].kind))
      ELSE Consumed(p + 1, tokens[p].span, "")

expect_int(p) ==
  IF ~peek_is_some(p)
    THEN Refused(p, UnexpectedEof)
    ELSE IF tokens[p].kind = "IntLiteral"
      THEN Consumed(p + 1, tokens[p].span, slice(tokens[p].span))
      ELSE Refused(p, expected("int literal", tokens[p].kind))

expect_ident(p) ==
  IF ~peek_is_some(p)
    THEN Refused(p, UnexpectedEof)
    ELSE IF tokens[p].kind = "Identifier"
      THEN Consumed(p + 1, tokens[p].span, slice(tokens[p].span))
      ELSE Refused(p, expected("identifier", tokens[p].kind))

parse_type(p) ==
  LET r == expect_ident(p)
  IN  IF r.ok THEN Consumed(r.pos, r.span, [tag |-> "Ident", name |-> r.text]) ELSE r

check_semicolon(p) == peek_kind(p) = "Semicolon"

cur_precedence(p) ==
  LET k == peek_kind(p)
  IN  CASE k \in {"DoubleEqual", "NotEqual"} -> "Equality"
        [] k \in {"LessThan", "GreaterThan", "LessThanOrEqual", "GreaterThanOrEqual"} ->
             "Comparison"
        [] k \in {"Plus", "Minus"} -> "Sum"
        [] k \in {"Asterisk", "Slash"} -> "Product"
        [] k = "LParen" -> "Group"
        [] OTHER -> "Lowest"


\* The infix arms of parse_expression's match: the operator and the
\* precedence each token kind is folded with.
infix_arm(k) ==
  CASE k = "Plus" -> [operator |-> "Plus", precedence |-> "Sum"]
    [] k = "Minus" -> [operator |-> "Minus", precedence |-> "Sum"]
    [] k = "Asterisk" -> [operator |-> "Multiply", precedence |-> "Product"]
    [] k = "Slash" -> [operator |-> "Divide", precedence |-> "Product"]
    [] k = "GreaterThan" -> [operator |-> "GreaterThan", precedence |-> "Comparison"]
    [] k = "LessThan" -> [operator |-> "LessThan", precedence |-> "Comparison"]
    [] k = "GreaterThanOrEqual" ->
         [operator |-> "GreaterThanOrEqual", precedence |-> "Comparison"]
    [] k = "LessThanOrEqual" ->
         [operator |-> "LessThanOrEqual", precedence |-> "Comparison"]
    [] k = "DoubleEqual" -> [operator |-> "Equal", precedence |-> "Equality"]
    [] k = "NotEqual" -> [operator |-> "NotEqual", precedence |-> "Equality"]

(***************************************************************************)
(* Frames: one per Rust function, holding its arguments and locals.        *)
(***************************************************************************)
parse_frame == [fn |-> "parse", pc |-> "loop", stmts |-> <<>>]

parse_expression_statement_frame == [fn |-> "parse_expression_statement", pc |-> "start"]

parse_expression_frame(precedence) ==
  [fn |-> "parse_expression", pc |-> "prefix", precedence |-> precedence, expr |-> NoValue]

parse_prefix_expression_frame(operator) ==
  [fn |-> "parse_prefix_expression", pc |-> "start", operator |-> operator, start |-> 0]

parse_infix_expression_frame(lhs, operator, precedence) ==
  [fn |-> "parse_infix_expression", pc |-> "start", lhs |-> lhs, operator |-> operator,
   precedence |-> precedence]

leaf_frame(fn) == [fn |-> fn, pc |-> "start"]

parse_variable_ident_frame(name, span) ==
  [fn |-> "parse_variable_ident", pc |-> "start", name |-> name, span |-> span]

parse_grouped_expression_frame ==
  [fn |-> "parse_grouped_expression", pc |-> "start", start_position |-> 0]

parse_function_call_frame(fn_name, start_position) ==
  [fn |-> "parse_function_call", pc |-> "start", fn_name |-> fn_name,
   start_position |-> start_position, arguments |-> <<>>]

parse_function_argument_frame ==
  [fn |-> "parse_function_argument", pc |-> "start", label |-> <<>>]

parse_variable_declaration_frame(name, start_position) ==
  [fn |-> "parse_variable_declaration", pc |-> "start", name |-> name,
   start_position |-> start_position, ty |-> <<>>, mutable |-> FALSE]

parse_function_expression_frame ==
  [fn |-> "parse_function_expression", pc |-> "start", start |-> 0, parameters |-> <<>>,
   return_type |-> <<>>, body |-> <<>>]

(***************************************************************************)
(* Control: the top frame runs; a call pushes, a return pops.              *)
(***************************************************************************)
Top == stack[Len(stack)]

Pop == SubSeq(stack, 1, Len(stack) - 1)

SetTop(f) == [stack EXCEPT ![Len(stack)] = f]

At(fn, pc) ==
  /\ result.status = "Running"
  /\ err = <<>>
  /\ stack # <<>>
  /\ Top.fn = fn
  /\ Top.pc = pc

Step(p, s, r, e) ==
  /\ pos' = p
  /\ stack' = s
  /\ ret' = r
  /\ err' = e
  /\ UNCHANGED <<tokens, result>>

\* the function goes on with its frame changed to f
Continue(p, f) == Step(p, SetTop(f), ret, err)

\* the function calls `callee` and will resume as f
Call(p, f, callee) == Step(p, Append(SetTop(f), callee), ret, err)

\* the function returns Ok(v)
Return(p, v) == Step(p, Pop, v, err)

\* the function meets Err(e); the `?` operators of its callers pass it on
Raise(p, e) == Step(p, stack, ret, <<e>>)

(***************************************************************************)
(* parse and parse_expression_statement.                                   *)
(***************************************************************************)
Ok(stmts) == [status |-> "Ok", program |-> stmts, error |-> <<>>]

Err(e) == [status |-> "Err", program |-> <<>>, error |-> <<e>>]

\* while self.lexer.peek().is_some() { ... parse_expression_statement()? }
\* Ok(Program(stmts))
parse_loop ==
  /\ At("parse", "loop")
  /\ IF peek_is_some(pos)
       THEN /\ Call(pos, [Top EXCEPT !.pc = "push"], parse_expression_statement_frame)
       ELSE /\ result' = Ok(Top.stmts)
            /\ stack' = <<>>
            /\ UNCHANGED <<tokens, pos, ret, err>>

\* stmts.push(...)
parse_push ==
  /\ At("parse", "push")
  /\ Continue(pos, [Top EXCEPT !.pc = "loop", !.stmts = Append(@, ret)])

\* parse without its `?`: the statement loop goes on after a failed statement
propagate_retry ==
  /\ result.status = "Running"
  /\ err # <<>>
  /\ stack # <<>>
  /\ IF Len(stack) = 1
       THEN stack' = <<[Top EXCEPT !.pc = "loop"]>> /\ err' = <<>>
       ELSE stack' = Pop /\ err' = err
  /\ UNCHANGED <<tokens, pos, ret, result>>

\* The `?` of the function on top of the stack returns the error to its
\* caller; parse's own `?` makes it the result.
propagate ==
  /\ result.status = "Running"
  /\ err # <<>>
  /\ stack # <<>>
  /\ stack' = Pop
  /\ result' = IF Len(stack) = 1 THEN Err(err[1]) ELSE result
  /\ UNCHANGED <<tokens, pos, ret, err>>

parse_expression_statement_start ==
  /\ At("parse_expression_statement", "start")
  /\ Call(pos, [Top EXCEPT !.pc = "semicolon"], parse_expression_frame("Lowest"))

\* the statement that forgets it met its separator
ExpressionStatement_kept(expr, discarded) == [expr |-> expr, discarded |-> FALSE]

ExpressionStatement(expr, discarded) == [expr |-> expr, discarded |-> discarded]

parse_expression_statement_semicolon ==
  /\ At("parse_expression_statement", "semicolon")
  /\ LET has_semicolon == check_semicolon(pos)
     IN  Return(IF has_semicolon THEN pos + 1 ELSE pos,
                ExpressionStatement(ret, has_semicolon))

(***************************************************************************)
(* parse_expression: prefix dispatch, then the infix loop.                 *)
(***************************************************************************)
Handler(p, frame) == [ok |-> TRUE, pos |-> p, frame |-> frame, err |-> UnexpectedEof]

NoHandler(p, e) == [ok |-> FALSE, pos |-> p, frame |-> leaf_frame("none"), err |-> e]

\* The closure prefix_parse_fn returns, as the frame calling it pushes, and
\* the stream position after the identifier it may have consumed.
prefix_parse_fn(p) ==
  LET peek_token_kind == peek_kind(p)
  IN  CASE peek_token_kind = "IntLiteral" -> Handler(p, leaf_frame("parse_int_literal"))
        [] peek_token_kind \in {"True", "False"} ->
             Handler(p, leaf_frame("parse_bool_literal"))
        [] peek_token_kind = "Unit" -> Handler(p, leaf_frame("parse_unit"))
        [] peek_token_kind = "LParen" -> Handler(p, parse_grouped_expression_frame)
        [] peek_token_kind = "Identifier" ->
             LET id == expect_ident(p)
                 next == peek_kind(id.pos)
             IN  CASE next = "Colon" ->
                        Handler(id.pos, parse_variable_declaration_frame(id.text, id.span.start))
                   [] next = "LParen" ->
                        Handler(id.pos, parse_function_call_frame(id.text, id.span.start))
                   [] OTHER -> Handler(id.pos, parse_variable_ident_frame(id.text, id.span))
        [] peek_token_kind = "Fun" -> Handler(p, parse_function_expression_frame)
        [] peek_token_kind = "ExclamationMark" ->
             Handler(p, parse_prefix_expression_frame("LogicalNot"))
        [] peek_token_kind = "Minus" -> Handler(p, parse_prefix_expression_frame("Negative"))
        [] OTHER -> NoHandler(p, NoPrefixParseFn(peek_token_kind))

\* let mut expr = self.prefix_parse_fn()?(self)?;   (the call)
parse_expression_prefix ==
  /\ At("parse_expression", "prefix")
  /\ LET h == prefix_parse_fn(pos)
     IN  IF h.ok
           THEN Call(h.pos, [Top EXCEPT !.pc = "expr"], h.frame)
           ELSE Raise(h.pos, h.err)

\* expr = <the value the prefix handler or parse_infix_expression returned>
parse_expression_expr ==
  /\ At("parse_expression", "expr")
  /\ Continue(pos, [Top EXCEPT !.pc = "loop", !.expr = ret])

\* the loop binding an operator of the caller's own precedence too
loop_condition_not_strict(p, precedence) ==
  PrecRank(cur_precedence(p)) >= PrecRank(precedence)

\* while self.cur_precedence()? > precedence
loop_condition(p, precedence) == PrecRank(cur_precedence(p)) > PrecRank(precedence)

\* one test of the loop condition and, when it holds, the match on peek_kind
parse_expression_loop ==
  /\ At("parse_expression", "loop")
  /\ IF ~loop_condition(pos, Top.precedence)
       THEN Return(pos, Top.expr)
       ELSE LET k == peek_kind(pos)
            IN  CASE k = "IntLiteral" -> Raise(pos, syntax_err("consecutive ints", ""))
                  [] k = "Eof" -> Return(pos, Top.expr)
                  [] k \in InfixKinds ->
                       Call(pos, [Top EXCEPT !.pc = "expr"],
                            parse_infix_expression_frame(Top.expr, infix_arm(k).operator,
                                                         infix_arm(k).precedence))
                  [] OTHER -> Raise(pos, syntax_err("invalid operator: ", k))

(***************************************************************************)
(* Prefix, infix, literal, identifier and grouped expressions.             *)
(***************************************************************************)
prefix_token(operator) == IF operator = "LogicalNot" THEN "ExclamationMark" ELSE "Minus"

parse_prefix_expression_start ==
  /\ At("parse_prefix_expression", "start")
  /\ LET t == expect_token(pos, prefix_token(Top.operator))
     IN  IF t.ok
           THEN Call(t.pos, [Top EXCEPT !.pc = "operand", !.start = t.span.start],
                     parse_expression_frame("Prefix"))
           ELSE Raise(t.pos, t.err)

Prefix(operator, expr, start) ==
  Expression([tag |-> "Prefix", operator |-> operator, expression |-> expr],
             from_range(start, expr.span.end))

parse_prefix_expression_operand ==
  /\ At("parse_prefix_expression", "operand")
  /\ Return(pos, Prefix(Top.operator, ret, Top.start))

\* self.lexer.next(); let rhs = self.parse_expression(precedence)?;
parse_infix_expression_start ==
  /\ At("parse_infix_expression", "start")
  /\ Call(IF peek_is_some(pos) THEN pos + 1 ELSE pos, [Top EXCEPT !.pc = "rhs"],
          parse_expression_frame(Top.precedence))

\* the node ending where its left operand ends
Infix_left_end(lhs, operator, rhs) ==
  Expression([tag |-> "Infix", left |-> lhs, operator |-> operator, right |-> rhs],
             from_range(lhs.span.start, lhs.span.end))

Infix(lhs, operator, rhs) ==
  Expression([tag |-> "Infix", left |-> lhs, operator |-> operator, right |-> rhs],
             from_range(lhs.span.start, rhs.span.end))

parse_infix_expression_rhs ==
  /\ At("parse_infix_expression", "rhs")
  /\ Return(pos, Infix(Top.lhs, Top.operator, ret))

parse_int_literal ==
  /\ At("parse_int_literal", "start")
  /\ LET t == expect_int(pos)
     IN  IF t.ok
           THEN Return(t.pos, Expression([tag |-> "IntLiteral", int |-> t.text], t.span))
           ELSE Raise(t.pos, t.err)

parse_bool_literal ==
  /\ At("parse_bool_literal", "start")
  /\ LET k == peek_kind(pos)
     IN  IF k \in {"True", "False"}
           THEN LET t == expect_token(pos, k)
                IN  IF t.ok
                      THEN Return(t.pos,
                                  Expression([tag |-> "BoolLiteral", bool |-> (k = "True")],
                                             t.span))
                      ELSE Raise(t.pos, t.err)
           ELSE Raise(pos, expected("true or false", k))

parse_unit ==
  /\ At("parse_unit", "start")
  /\ LET t == expect_token(pos, "Unit")
     IN  IF t.ok
           THEN Return(t.pos, Expression([tag |-> "Unit"], t.span))
           ELSE Raise(t.pos, t.err)

Ident(name, span) == Expression([tag |-> "Ident", name |-> name], span)

parse_variable_ident ==
  /\ At("parse_variable_ident", "start")
  /\ Return(pos, Ident(Top.name, Top.span))

parse_grouped_expression_start ==
  /\ At("parse_grouped_expression", "start")
  /\ LET t == expect_token(pos, "LParen")
     IN  IF t.ok
           THEN Call(t.pos, [Top EXCEPT !.pc = "close", !.start_position = t.span.start],
                     parse_expression_frame("Lowest"))
           ELSE Raise(t.pos, t.err)

\* the inner expression's kind under the span of the parentheses
Grouped(expr, start_position, end_position) ==
  Expression(expr.kind, from_range(start_position, end_position))

parse_grouped_expression_close ==
  /\ At("parse_grouped_expression", "close")
  /\ LET k == peek_kind(pos)
     IN  IF k = "RParen"
           THEN LET t == expect_token(pos, "RParen")
                IN  IF t.ok
                      THEN Return(t.pos, Grouped(ret, Top.start_position, t.span.end))
                      ELSE Raise(t.pos, t.err)
           ELSE Raise(pos, expected(")", k))

(***************************************************************************)
(* Function calls and their arguments.                                     *)
(***************************************************************************)
parse_function_call_start ==
  /\ At("parse_function_call", "start")
  /\ LET t == expect_token(pos, "LParen")
     IN  IF t.ok THEN Continue(t.pos, [Top EXCEPT !.pc = "args"]) ELSE Raise(t.pos, t.err)

\* while self.peek_kind() != &RParen { ... parse_function_argument()? }
parse_function_call_args ==
  /\ At("parse_function_call", "args")
  /\ IF peek_kind(pos) # "RParen"
       THEN Call(pos, [Top EXCEPT !.pc = "arg"], parse_function_argument_frame)
       ELSE Continue(pos, [Top EXCEPT !.pc = "rparen"])

\* arguments.push(...); if Comma { expect_token(Comma)?; continue } else { break }
parse_function_call_arg ==
  /\ At("parse_function_call", "arg")
  /\ LET pushed == [Top EXCEPT !.arguments = Append(@, ret)]
     IN  IF peek_kind(pos) = "Comma"
           THEN LET t == expect_token(pos, "Comma")
                IN  IF t.ok
                      THEN Continue(t.pos, [pushed EXCEPT !.pc = "args"])
                      ELSE Raise(t.pos, t.err)
           ELSE Continue(pos, [pushed EXCEPT !.pc = "rparen"])

FunctionCall(name, arguments, start_position, end_position) ==
  Expression([tag |-> "FunctionCall", name |-> name, arguments |-> arguments],
             from_range(start_position, end_position))

parse_function_call_rparen ==
  /\ At("parse_function_call", "rparen")
  /\ LET t == expect_token(pos, "RParen")
     IN  IF t.ok
           THEN Return(t.pos,
                       FunctionCall(Top.fn_name, Top.arguments, Top.start_position, t.span.end))
           ELSE Raise(t.pos, t.err)

FunctionArgument(label, value) == [label |-> label, value |-> value]

parse_function_argument_start ==
  /\ At("parse_function_argument", "start")
  /\ IF ~peek_is_some(pos)
       THEN Raise(pos, UnexpectedEof)
       ELSE LET span == tokens[pos].span
            IN  IF tokens[pos].kind = "Identifier"
                  THEN LET id == expect_ident(pos)
                       IN  IF peek_kind(id.pos) = "Colon"
                             THEN LET t == expect_token(id.pos, "Colon")
                                  IN  IF t.ok
                                        THEN Call(t.pos,
                                                  [Top EXCEPT !.pc = "value",
                                                              !.label = <<id.text>>],
                                                  parse_expression_frame("Lowest"))
                                        ELSE Raise(t.pos, t.err)
                             ELSE Return(id.pos, FunctionArgument(<<>>, Ident(id.text, span)))
                  ELSE Call(pos, [Top EXCEPT !.pc = "value"], parse_expression_frame("Lowest"))

parse_function_argument_value ==
  /\ At("parse_function_argument", "value")
  /\ Return(pos, FunctionArgument(Top.label, ret))

(***************************************************************************)
(* Variable declarations.                                                  *)
(***************************************************************************)
\* self.expect_token(Colon)?; then the optional type
parse_variable_declaration_start ==
  /\ At("parse_variable_declaration", "start")
  /\ LET c == expect_token(pos, "Colon")
     IN  IF ~c.ok
           THEN Raise(c.pos, c.err)
           ELSE IF peek_kind(c.pos) = "Identifier" \/ peek_kind(c.pos) = "Fun"
             THEN LET ty == parse_type(c.pos)
                  IN  IF ty.ok
                        THEN Continue(ty.pos, [Top EXCEPT !.pc = "delimiter", !.ty = <<ty.text>>])
                        ELSE Raise(ty.pos, ty.err)
             ELSE Continue(c.pos, [Top EXCEPT !.pc = "delimiter"])

\* the delimiter match without its error arm: whatever is no colon is taken for =
parse_variable_declaration_delimiter_unchecked ==
  /\ At("parse_variable_declaration", "delimiter")
  /\ LET k == peek_kind(pos)
         t == expect_token(pos, IF k = "Colon" THEN "Colon" ELSE "SingleEqual")
     IN  IF t.ok
           THEN Call(t.pos, [Top EXCEPT !.pc = "value", !.mutable = (k = "SingleEqual")],
                     parse_expression_frame("Lowest"))
           ELSE Raise(t.pos, t.err)

\* the delimiter match with the two bindings' mutability exchanged
parse_variable_declaration_delimiter_flipped ==
  /\ At("parse_variable_declaration", "delimiter")
  /\ LET k == peek_kind(pos)
     IN  IF k \in {"Colon", "SingleEqual"}
           THEN LET t == expect_token(pos, k)
                IN  IF t.ok
                      THEN Call(t.pos, [Top EXCEPT !.pc = "value", !.mutable = (k = "Colon")],
                                parse_expression_frame("Lowest"))
                      ELSE Raise(t.pos, t.err)
           ELSE Raise(pos, expected(": or =", k))

\* match self.peek_kind() { Colon => ..., SingleEqual => ..., tok => Err(...) }
parse_variable_declaration_delimiter ==
  /\ At("parse_variable_declaration", "delimiter")
  /\ LET k == peek_kind(pos)
     IN  IF k \in {"Colon", "SingleEqual"}
           THEN LET t == expect_token(pos, k)
                IN  IF t.ok
                      THEN Call(t.pos,
                                [Top EXCEPT !.pc = "value", !.mutable = (k = "SingleEqual")],
                                parse_expression_frame("Lowest"))
                      ELSE Raise(t.pos, t.err)
           ELSE Raise(pos, expected(": or =", k))

VariableDecl(name, value, mutable, ty, start_position) ==
  Expression([tag |-> "VariableDecl", name |-> name, value |-> value, mutable |-> mutable,
              ty |-> ty],
             from_range(start_position, value.span.end))

parse_variable_declaration_value ==
  /\ At("parse_variable_declaration", "value")
  /\ Return(pos, VariableDecl(Top.name, ret, Top.mutable, Top.ty, Top.start_position))

(***************************************************************************)
(* Function literals and their parameters.                                 *)
(***************************************************************************)
parse_function_expression_start ==
  /\ At("parse_function_expression", "start")
  /\ LET f == expect_token(pos, "Fun")
     IN  IF ~f.ok
           THEN Raise(f.pos, f.err)
           ELSE LET l == expect_token(f.pos, "LParen")
                IN  IF l.ok
                      THEN Continue(l.pos, [Top EXCEPT !.pc = "params", !.start = f.span.start])
                      ELSE Raise(l.pos, l.err)

\* while self.peek_kind() != &RParen { ... parse_function_parameter()? }
parse_function_expression_params ==
  /\ At("parse_function_expression", "params")
  /\ IF peek_kind(pos) # "RParen"
       THEN Call(pos, [Top EXCEPT !.pc = "param"], leaf_frame("parse_function_parameter"))
       ELSE Continue(pos, [Top EXCEPT !.pc = "rparen"])

parse_function_expression_param ==
  /\ At("parse_function_expression", "param")
  /\ LET pushed == [Top EXCEPT !.parameters = Append(@, ret)]
     IN  IF peek_kind(pos) = "Comma"
           THEN LET t == expect_token(pos, "Comma")
                IN  IF t.ok
                      THEN Continue(t.pos, [pushed EXCEPT !.pc = "params"])
                      ELSE Raise(t.pos, t.err)
           ELSE Continue(pos, [pushed EXCEPT !.pc = "rparen"])

\* self.expect_token(RParen)?; the optional return type; self.expect_token(LBrace)?
parse_function_expression_rparen ==
  /\ At("parse_function_expression", "rparen")
  /\ LET r == expect_token(pos, "RParen")
     IN  IF ~r.ok
           THEN Raise(r.pos, r.err)
           ELSE LET typed == peek_kind(r.pos) = "Identifier"
                    ty == parse_type(r.pos)
                IN  IF typed /\ ~ty.ok
                      THEN Raise(ty.pos, ty.err)
                      ELSE LET b == expect_token(IF typed THEN ty.pos ELSE r.pos, "LBrace")
                           IN  IF b.ok
                                 THEN Continue(b.pos,
                                               [Top EXCEPT !.pc = "body",
                                                           !.return_type =
                                                             IF typed THEN <<ty.text>> ELSE <<>>])
                                 ELSE Raise(b.pos, b.err)

\* while self.peek_kind() != &RBrace { ... parse_expression_statement()? }
parse_function_expression_body ==
  /\ At("parse_function_expression", "body")
  /\ IF peek_kind(pos) # "RBrace"
       THEN Call(pos, [Top EXCEPT !.pc = "stmt"], parse_expression_statement_frame)
       ELSE Continue(pos, [Top EXCEPT !.pc = "rbrace"])

parse_function_expression_stmt ==
  /\ At("parse_function_expression", "stmt")
  /\ Continue(pos, [Top EXCEPT !.pc = "body", !.body = Append(@, ret)])

Function(parameters, return_type, body, start, end) ==
  Expression([tag |-> "Function", parameters |-> parameters, return_type |-> return_type,
              body |-> body],
             from_range(start, end))

parse_function_expression_rbrace ==
  /\ At("parse_function_expression", "rbrace")
  /\ LET t == expect_token(pos, "RBrace")
     IN  IF t.ok
           THEN Return(t.pos,
                       Function(Top.parameters, Top.return_type, Top.body, Top.start, t.span.end))
           ELSE Raise(t.pos, t.err)

UnlabeledAtCallsite(name, ty) == [tag |-> "UnlabeledAtCallsite", name |-> name, ty |-> ty]

LabeledAtCallsite(first, second, ty) ==
  [tag |-> "LabeledAtCallsite",
   internal_name |-> IF second # <<>> THEN second[1] ELSE first,
   external_name |-> IF second # <<>> THEN <<first>> ELSE <<>>,
   ty |-> ty]

\* the tail `self.expect_token(Colon)?; let ty = self.parse_type()?;` of both arms
colon_and_type(p) ==
  LET c == expect_token(p, "Colon")
  IN  IF c.ok THEN parse_type(c.pos) ELSE c

parse_function_parameter ==
  /\ At("parse_function_parameter", "start")
  /\ LET k == peek_kind(pos)
     IN  CASE k = "Tilde" ->
                LET t == expect_token(pos, "Tilde")
                    name == expect_ident(t.pos)
                    ty == colon_and_type(name.pos)
                IN  IF ~t.ok THEN Raise(t.pos, t.err)
                    ELSE IF ~name.ok THEN Raise(name.pos, name.err)
                    ELSE IF ~ty.ok THEN Raise(ty.pos, ty.err)
                    ELSE Return(ty.pos, UnlabeledAtCallsite(name.text, ty.text))
           [] k = "Identifier" ->
                LET first == expect_ident(pos)
                    two == peek_kind(first.pos) = "Identifier"
                    name == expect_ident(first.pos)
                    second == IF two THEN <<name.text>> ELSE <<>>
                    ty == colon_and_type(IF two THEN name.pos ELSE first.pos)
                IN  IF ~first.ok THEN Raise(first.pos, first.err)
                    ELSE IF two /\ ~name.ok THEN Raise(name.pos, name.err)
                    ELSE IF ~ty.ok THEN Raise(ty.pos, ty.err)
                    ELSE Return(ty.pos, LabeledAtCallsite(first.text, second, ty.text))
           [] OTHER -> Raise(pos, expected("parameter name", k))

(***************************************************************************)
(* The inputs: the token kinds of the source texts parse() is run on.      *)
(***************************************************************************)
SeqsUpTo(S, n) == UNION {[1..k -> S] : k \in 0..n}

Prefixes(seqs) == UNION {{SubSeq(s, 1, k) : k \in 0..Len(s)} : s \in seqs}

BinaryKinds == {"Minus", "Asterisk", "LessThan", "DoubleEqual"}

PrefixKinds == {"ExclamationMark", "Minus"}

\* the expressions over integer literals with exactly n operators, prefix
\* operators and pairs of parentheses
RECURSIVE ExprsOfSize(_)
ExprsOfSize(n) ==
  IF n = 0
    THEN {<<"IntLiteral">>}
    ELSE {<<k>> \o e : k \in PrefixKinds, e \in ExprsOfSize(n - 1)}
         \cup {<<"LParen">> \o e \o <<"RParen">> : e \in ExprsOfSize(n - 1)}
         \cup UNION {{l \o <<k>> \o r : l \in ExprsOfSize(i), k \in BinaryKinds,
                                         r \in ExprsOfSize(n - 1 - i)} : i \in 0..(n - 1)}

ExprInputs == UNION {ExprsOfSize(n) : n \in 0..MaxNodes}

\* every pair of binary operators, and every prefix operator before and
\* inside such a pair
OperatorInputs ==
  {<<"IntLiteral", k1, "IntLiteral", k2, "IntLiteral">> : k1, k2 \in InfixKinds}
  \cup {<<k0, "IntLiteral", k1, "IntLiteral">> : k0 \in PrefixKinds, k1 \in InfixKinds}
  \cup {<<"IntLiteral", k1, k0, "IntLiteral", k2, "IntLiteral">> :
          k0 \in PrefixKinds, k1 \in InfixKinds, k2 \in InfixKinds}

FreeKinds ==
  {"IntLiteral", "True", "False", "Unit", "Identifier", "Semicolon", "Plus",
   "ExclamationMark", "LParen", "RParen", "Colon", "SingleEqual"}

FreeInputs == SeqsUpTo(FreeKinds, MaxFree)

\* statements, with and without their separator
StatementInputs == SeqsUpTo({"IntLiteral", "Semicolon", "Asterisk"}, MaxFree + 2)

DeclKinds ==
  {"Identifier", "Colon", "SingleEqual", "IntLiteral", "Fun", "Plus", "Semicolon", "LParen",
   "RParen"}

DeclarationForms ==
  {<<"Identifier", "Colon", "Colon", "IntLiteral">>,
   <<"Identifier", "Colon", "SingleEqual", "IntLiteral", "Plus", "IntLiteral">>,
   <<"Identifier", "Colon", "Identifier", "SingleEqual", "Minus", "IntLiteral">>,
   <<"Identifier", "Colon", "Identifier", "Colon", "Identifier", "Colon", "Colon",
     "IntLiteral">>}

\* name : followed by anything; declarations alone, in parentheses and as
\* a second statement
DeclInputs ==
  {<<"Identifier", "Colon">> \o t : t \in SeqsUpTo(DeclKinds, MaxFree)}
  \cup DeclarationForms
  \cup {<<"LParen">> \o d \o <<"RParen">> : d \in DeclarationForms}
  \cup {<<"IntLiteral", "Semicolon">> \o d : d \in DeclarationForms}

\* items joined by commas: the lists of at most n items
RECURSIVE Lists(_, _)
Lists(items, n) ==
  IF n = 0
    THEN {<<>>}
    ELSE Lists(items, n - 1)
         \cup {i : i \in items}
         \cup {l \o <<"Comma">> \o i : l \in Lists(items, n - 1) \ {<<>>}, i \in items}

ArgumentForms ==
  {<<"IntLiteral">>, <<"Identifier">>, <<"Identifier", "Colon", "IntLiteral">>,
   <<"Identifier", "Colon", "Identifier">>, <<"Identifier", "Plus", "IntLiteral">>,
   <<"IntLiteral", "Plus", "Identifier">>, <<"LParen", "Identifier", "RParen">>,
   <<"Identifier", "LParen", "IntLiteral", "RParen">>,
   <<"Identifier", "Colon", "Identifier", "Asterisk", "IntLiteral">>,
   <<"IntLiteral", "IntLiteral">>}

\* name ( arguments ), also with a trailing comma, and every text cut short
CallInputs ==
  Prefixes({<<"Identifier", "LParen">> \o l \o c \o <<"RParen">> \o t :
              l \in Lists(ArgumentForms, MaxItems), c \in {<<>>, <<"Comma">>},
              t \in {<<>>, <<"Semicolon", "IntLiteral">>}})

ParameterForms ==
  {<<"Tilde", "Identifier", "Colon", "Identifier">>,
   <<"Identifier", "Colon", "Identifier">>,
   <<"Identifier", "Identifier", "Colon", "Identifier">>,
   <<"Identifier", "Identifier", "Identifier">>,
   <<"Tilde", "Colon">>,
   <<"IntLiteral">>}

BodyForms ==
  {<<>>, <<"IntLiteral">>, <<"IntLiteral", "Semicolon">>,
   <<"Identifier", "Semicolon", "IntLiteral">>, <<"RParen">>}

\* fun ( parameters ) [type] { body }, and every text cut short
FunInputs ==
  Prefixes({<<"Fun", "LParen">> \o l \o c \o <<"RParen">> \o ty \o <<"LBrace">> \o b
            \o <<"RBrace">> :
              l \in Lists(ParameterForms, MaxItems), c \in {<<>>, <<"Comma">>},
              ty \in {<<>>, <<"Identifier">>}, b \in BodyForms})

Inputs ==
  ExprInputs \cup OperatorInputs \cup FreeInputs \cup StatementInputs \cup DeclInputs
  \cup CallInputs \cup FunInputs

(***************************************************************************)
(* The machine.                                                            *)
(***************************************************************************)
\* Parser::new(source) and the call of parse()
Init ==
  /\ tokens \in {Lex(ks) : ks \in Inputs}
  /\ pos = 1
  /\ stack = <<parse_frame>>
  /\ ret = NoValue
  /\ err = <<>>
  /\ result = [status |-> "Running", program |-> <<>>, error |-> <<>>]

Next ==
  \/ parse_loop
  \/ parse_push
  \/ propagate
  \/ parse_expression_statement_start
  \/ parse_expression_statement_semicolon
  \/ parse_expression_prefix
  \/ parse_expression_expr
  \/ parse_expression_loop
  \/ parse_prefix_expression_start
  \/ parse_prefix_expression_operand
  \/ parse_infix_expression_start
  \/ parse_infix_expression_rhs
  \/ parse_int_literal
  \/ parse_bool_literal
  \/ parse_unit
  \/ parse_variable_ident
  \/ parse_grouped_expression_start
  \/ parse_grouped_expression_close
  \/ parse_function_call_start
  \/ parse_function_call_args
  \/ parse_function_call_arg
  \/ parse_function_call_rparen
  \/ parse_function_argument_start
  \/ parse_function_argument_value
  \/ parse_variable_declaration_start
  \/ parse_variable_declaration_delimiter
  \/ parse_variable_declaration_value
  \/ parse_function_expression_start
  \/ parse_function_expression_params
  \/ parse_function_expression_param
  \/ parse_function_expression_rparen
  \/ parse_function_expression_body
  \/ parse_function_expression_stmt
  \/ parse_function_expression_rbrace
  \/ parse_function_parameter

Spec == Init /\ [][Next]_vars

\* parse() is one synchronous call: it keeps running until it returns
FairSpec == Spec /\ WF_vars(Next)

(***************************************************************************)
(* Reading the outcome.                                                    *)
(***************************************************************************)
Kinds == [i \in 1..Len(tokens) |-> tokens[i].kind]

Done == result.status # "Running"

\* the sub-expressions an expression node owns
SubExpressions(e) ==
  LET k == e.kind
  IN  CASE k.tag = "Prefix" -> <<k.expression>>
        [] k.tag = "Infix" -> <<k.left, k.right>>
        [] k.tag = "VariableDecl" -> <<k.value>>
        [] k.tag = "Function" -> [i \in 1..Len(k.body) |-> k.body[i].expr]
        [] k.tag = "FunctionCall" -> [i \in 1..Len(k.arguments) |-> k.arguments[i].value]
        [] OTHER -> <<>>

RECURSIVE Concat(_)
Concat(seqs) == IF seqs = <<>> THEN <<>> ELSE Head(seqs) \o Concat(Tail(seqs))

\* every expression node of the tree under e, e first
RECURSIVE NodesOf(_)
NodesOf(e) ==
  LET subs == SubExpressions(e)
  IN  <<e>> \o Concat([i \in 1..Len(subs) |-> NodesOf(subs[i])])

ProgramNodes ==
  Concat([i \in 1..Len(result.program) |-> NodesOf(result.program[i].expr)])

\* the token that starts, and the token that ends, at a byte offset
TokenStartingAt(offset) == (offset \div 2) + 1

TokenEndingAt(offset) == (offset + 1) \div 2

(***************************************************************************)
(* The reference grammar of expressions, one rule per precedence level:    *)
(*   equality   ::= comparison { (== | !=) comparison }                    *)
(*   comparison ::= sum { (< | > | <= | >=) sum }                          *)
(*   sum        ::= product { (+ | -) product }                            *)
(*   product    ::= unary { ( * | / ) unary }                              *)
(*   unary      ::= (! | -) unary | primary                                *)
(*   primary    ::= int | "(" equality ")"                                 *)
(* read by recursive descent, the operators of a level folded to the left. *)
(***************************************************************************)
RefLevelKinds(level) ==
  CASE level = 1 -> {"DoubleEqual", "NotEqual"}
    [] level = 2 -> {"LessThan", "GreaterThan", "LessThanOrEqual", "GreaterThanOrEqual"}
    [] level = 3 -> {"Plus", "Minus"}
    [] level = 4 -> {"Asterisk", "Slash"}

RefOperator(k) ==
  CASE k = "DoubleEqual" -> "Equal"
    [] k = "Asterisk" -> "Multiply"
    [] k = "Slash" -> "Divide"
    [] OTHER -> k

RefInt(i) == [tag |-> "IntLiteral", int |-> i]

RefPrefix(operator, operand) ==
  [tag |-> "Prefix", operator |-> operator, expression |-> operand]

RefInfix(left, operator, right) ==
  [tag |-> "Infix", left |-> left, operator |-> operator, right |-> right]

RECURSIVE RefLevel(_, _), RefTail(_, _, _), RefUnary(_)
RefLevel(level, p) ==
  IF level > 4
    THEN RefUnary(p)
    ELSE LET first == RefLevel(level + 1, p)
         IN  RefTail(level, first.tree, first.pos)

RefTail(level, left, p) ==
  IF peek_kind(p) \in RefLevelKinds(level)
    THEN LET right == RefLevel(level + 1, p + 1)
         IN  RefTail(level, RefInfix(left, RefOperator(peek_kind(p)), right.tree), right.pos)
    ELSE [tree |-> left, pos |-> p]

RefUnary(p) ==
  CASE peek_kind(p) = "ExclamationMark" ->
         LET operand == RefUnary(p + 1)
         IN  [tree |-> RefPrefix("LogicalNot", operand.tree), pos |-> operand.pos]
    [] peek_kind(p) = "Minus" ->
         LET operand == RefUnary(p + 1)
         IN  [tree |-> RefPrefix("Negative", operand.tree), pos |-> operand.pos]
    [] peek_kind(p) = "LParen" ->
         LET inner == RefLevel(1, p + 1)
         IN  [tree |-> inner.tree, pos |-> inner.pos + 1]
    [] OTHER -> [tree |-> RefInt(p), pos |-> p + 1]

\* an expression of literals and operators without its spans
RECURSIVE Shape(_)
Shape(e) ==
  LET k == e.kind
  IN  CASE k.tag = "Prefix" -> RefPrefix(k.operator, Shape(k.expression))
        [] k.tag = "Infix" -> RefInfix(Shape(k.left), k.operator, Shape(k.right))
        [] OTHER -> k

(***************************************************************************)
(* C1: an expression of integer literals, binary operators, prefix         *)
(* operators and parentheses parses, as the only statement, to the tree    *)
(* the reference grammar gives it: tighter binding for the higher          *)
(* precedence, grouping to the left for equal precedence, one operand for  *)
(* a prefix operator, no node for a pair of parentheses.                   *)
(***************************************************************************)
C1_ReferenceTree ==
  (Done /\ Kinds \in ExprInputs \cup OperatorInputs) =>
    /\ result.status = "Ok"
    /\ Len(result.program) = 1
    /\ ~result.program[1].discarded
    /\ Shape(result.program[1].expr) = RefLevel(1, 1).tree

\* 1 - 2 - 3 * 4 has been parsed to (1 - 2) - (3 * 4)
C1_Witness ==
  /\ result.status = "Ok"
  /\ Kinds = <<"IntLiteral", "Minus", "IntLiteral", "Minus", "IntLiteral", "Asterisk",
               "IntLiteral">>
  /\ Shape(result.program[1].expr) =
       RefInfix(RefInfix(RefInt(1), "Minus", RefInt(3)), "Minus",
                RefInfix(RefInt(5), "Multiply", RefInt(7)))

(***************************************************************************)
(* C2: a text that begins with two integer literals and no operator        *)
(* between them makes parse() fail with the Syntax error for consecutive   *)
(* integer literals; no Program is returned for it.                        *)
(***************************************************************************)
C2_ConsecutiveInts ==
  (Done /\ Len(tokens) >= 2 /\ Kinds[1] = "IntLiteral" /\ Kinds[2] = "IntLiteral") =>
    /\ result.status = "Err"
    /\ result.error = <<syntax_err("consecutive ints", "")>>

(***************************************************************************)
(* C3: in a call with one argument, name ( argument ), the argument is     *)
(* label: expression when it begins with an identifier and a colon, and    *)
(* otherwise a bare expression parsed in full, also when it begins with an *)
(* identifier: the call succeeds with that one argument, whose value       *)
(* covers all the argument's tokens.                                       *)
(***************************************************************************)
WellFormedArguments == ArgumentForms \ {<<"IntLiteral", "IntLiteral">>}

C3_BareArgument ==
  (/\ Done
   /\ \E a \in WellFormedArguments : Kinds = <<"Identifier", "LParen">> \o a \o <<"RParen">>) =>
    /\ result.status = "Ok"
    /\ Len(result.program) = 1
    /\ LET call == result.program[1].expr.kind
           labeled == Kinds[4] = "Colon"
       IN  /\ call.tag = "FunctionCall"
           /\ Len(call.arguments) = 1
           /\ call.arguments[1].label = IF labeled THEN <<slice(tokens[3].span)>> ELSE <<>>
           /\ call.arguments[1].value.span =
                from_range(tokens[IF labeled THEN 5 ELSE 3].span.start,
                           tokens[Len(tokens) - 1].span.end)

(***************************************************************************)
(* C4: expect_token on a token of the expected kind advances the stream by *)
(* one token and returns that token's span; on a token of another kind it  *)
(* fails with the mismatch error and leaves the stream where it was.       *)
(***************************************************************************)
MismatchRaised ==
  /\ err = <<>>
  /\ err' # <<>>
  /\ err'[1].tag = "Syntax"
  /\ err'[1].text = "syntax error: unexpected token: "

C4_ExpectToken ==
  [][/\ (parse_function_call_rparen /\ peek_kind(pos) = "RParen") =>
          (err' = <<>> /\ pos' = pos + 1 /\ ret'.span.end = tokens[pos].span.end)
     /\ MismatchRaised => pos' = pos]_vars

(***************************************************************************)
(* Declarations at the start of the text: name : [typeName] delimiter ...  *)
(***************************************************************************)
DeclarationFirst == Len(tokens) >= 2 /\ Kinds[1] = "Identifier" /\ Kinds[2] = "Colon"

\* the index of the name token of the declaration whose span starts at `start`
\* and what stands after its first colon
TypedAt(i) == peek_kind(i + 2) = "Identifier"

DelimiterAt(i) == IF TypedAt(i) THEN i + 3 ELSE i + 2

\* the node a declaration with its name at token i is to yield, given its value
DeclarationAt(i, value) ==
  [tag |-> "VariableDecl",
   name |-> slice(tokens[i].span),
   value |-> value,
   mutable |-> (peek_kind(DelimiterAt(i)) = "SingleEqual"),
   ty |-> IF TypedAt(i) THEN <<[tag |-> "Ident", name |-> slice(tokens[i + 2].span)]>>
          ELSE <<>>]

(***************************************************************************)
(* C5 as claimed: in a declaration, after name : and the optional type     *)
(* identifier, every next token that is neither : nor =, the fun keyword   *)
(* and the end of input included, makes the parse fail with                *)
(* Expected{expected: ": or =", got: that token}.                          *)
(***************************************************************************)
C5_Original ==
  (Done /\ DeclarationFirst /\ peek_kind(DelimiterAt(1)) \notin {"Colon", "SingleEqual"}) =>
    result = Err(expected(": or =", peek_kind(DelimiterAt(1))))

(***************************************************************************)
(* C5 as amended: the same, except that the fun keyword right after the    *)
(* first colon is taken for the start of a type and fails with             *)
(* Expected{expected: "identifier", got: fun}.                             *)
(***************************************************************************)
C5_ExpectedDelimiter ==
  (Done /\ DeclarationFirst /\ peek_kind(DelimiterAt(1)) \notin {"Colon", "SingleEqual"}) =>
    result = Err(IF peek_kind(3) = "Fun"
                   THEN expected("identifier", "Fun")
                   ELSE expected(": or =", peek_kind(DelimiterAt(1))))

\* a : T fun has failed for want of a delimiter
C5_Witness ==
  /\ Kinds = <<"Identifier", "Colon", "Identifier", "Fun">>
  /\ result = Err(expected(": or =", "Fun"))

(***************************************************************************)
(* C6 as claimed: an identifier immediately followed by a colon always     *)
(* starts a variable declaration, whose node has mutable true exactly for  *)
(* the delimiter =, false exactly for a second colon, ty Some exactly when *)
(* an identifier stands between the first colon and the delimiter, and as  *)
(* value the expression after the delimiter.                               *)
(***************************************************************************)
IsDeclarationOf(node, i) ==
  /\ node.kind.tag = "VariableDecl"
  /\ node.kind = DeclarationAt(i, node.kind.value)
  /\ peek_kind(DelimiterAt(i)) \in {"Colon", "SingleEqual"}
  /\ node.kind.value.span.start = tokens[DelimiterAt(i) + 1].span.start

\* A declaration's own type name and the names of a parameter list are not
\* counted against the claim: the identifiers looked at are those of texts
\* without function literals that do not follow name :.
IsTypeName(i) == i >= 3 /\ Kinds[i - 1] = "Colon" /\ Kinds[i - 2] = "Identifier"

C6_Original ==
  (result.status = "Ok" /\ \A j \in 1..Len(tokens) : Kinds[j] # "Fun") =>
    \A i \in 1..(Len(tokens) - 1) :
      (Kinds[i] = "Identifier" /\ Kinds[i + 1] = "Colon" /\ ~IsTypeName(i)) =>
        \E n \in 1..Len(ProgramNodes) : IsDeclarationOf(ProgramNodes[n], i)

(***************************************************************************)
(* C6 as amended: an identifier that begins an expression (the token the   *)
(* prefix dispatch of parse_expression looks at) and is immediately        *)
(* followed by a colon starts a variable declaration; the value is parsed  *)
(* at Lowest precedence after the delimiter, and the node returned has     *)
(* mutable true exactly for =, false exactly for a second colon, ty Some   *)
(* exactly when an identifier stands between the first colon and the       *)
(* delimiter.  (At the start of a call argument identifier : is a label,   *)
(* and the type name of a declaration or parameter starts nothing.)        *)
(***************************************************************************)
C6_Dispatched ==
  (parse_expression_prefix /\ peek_kind(pos) = "Identifier" /\ peek_kind(pos + 1) = "Colon") =>
    /\ pos' = pos + 1
    /\ stack'[Len(stack')] =
         parse_variable_declaration_frame(slice(tokens[pos].span), tokens[pos].span.start)

C6_AtLowest ==
  (parse_variable_declaration_delimiter /\ err' = <<>>) =>
    stack'[Len(stack')] = parse_expression_frame("Lowest")

C6_Returned ==
  parse_variable_declaration_value =>
    /\ IsDeclarationOf(ret', TokenStartingAt(Top.start_position))
    /\ ret'.kind.value = ret

C6_FirstStatement ==
  (result.status = "Ok" /\ DeclarationFirst) => IsDeclarationOf(result.program[1].expr, 1)

C6_Declaration ==
  /\ []C6_FirstStatement
  /\ [][C6_Dispatched /\ C6_AtLowest /\ C6_Returned]_vars

\* a: c = 5 has been parsed to a mutable declaration of type c
C6_Witness ==
  /\ result.status = "Ok"
  /\ Kinds = <<"Identifier", "Colon", "Identifier", "SingleEqual", "IntLiteral">>
  /\ result.program[1].expr.kind =
       [tag |-> "VariableDecl", name |-> "a", mutable |-> TRUE,
        ty |-> <<[tag |-> "Ident", name |-> "c"]>>,
        value |-> Expression([tag |-> "IntLiteral", int |-> 5], from_range(8, 9))]

(***************************************************************************)
(* C7: the Program parse() returns holds the text's statements in source   *)
(* order, the first starting at the first token: each is one expression,   *)
(* followed by at most one separator; its discarded flag is true exactly   *)
(* when the token after the expression is the separator, which is then     *)
(* consumed; the next statement starts right after; the last one ends the  *)
(* text.  A text with no tokens yields the empty Program.                  *)
(***************************************************************************)
\* statements k.. of the program account for the tokens i..
RECURSIVE StatementsFrom(_, _)
StatementsFrom(k, i) ==
  IF k > Len(result.program)
    THEN i = Len(tokens) + 1
    ELSE LET stmt == result.program[k]
             last == TokenEndingAt(stmt.expr.span.end)
         IN  /\ i <= Len(tokens)
             /\ stmt.expr.span.start = tokens[i].span.start
             /\ last >= i
             /\ stmt.discarded = (peek_kind(last + 1) = "Semicolon")
             /\ StatementsFrom(k + 1, IF stmt.discarded THEN last + 2 ELSE last + 1)

C7_Statements == result.status = "Ok" => StatementsFrom(1, 1)

\* 1 ; 3 4 ; has been parsed to three statements
C7_Witness ==
  /\ result.status = "Ok"
  /\ Kinds = <<"IntLiteral", "Semicolon", "IntLiteral", "IntLiteral", "Semicolon">>
  /\ [k \in 1..Len(result.program) |-> result.program[k].discarded] = <<TRUE, FALSE, TRUE>>
  /\ [k \in 1..Len(result.program) |-> result.program[k].expr.span.start] = <<0, 4, 6>>

(***************************************************************************)
(* C8: parse() ends in Ok(Program) or in one error.  Ok is returned only   *)
(* with every token consumed and no error raised.  Once an error is raised *)
(* it stays the error: no token is consumed, no call is made and no value  *)
(* returned after it, only frames are left; it becomes the result, with no *)
(* Program beside it.  After the outcome nothing changes.                  *)
(***************************************************************************)
C8_FirstError ==
  [][/\ result.status = "Running"
     /\ result'.status = "Ok" =>
          (pos' = Len(tokens) + 1 /\ err' = <<>> /\ result'.error = <<>>)
     /\ err # <<>> =>
          /\ err' = err
          /\ pos' = pos
          /\ ret' = ret
          /\ stack' = Pop
          /\ result'.status # "Ok"
     /\ result'.status = "Err" =>
          (err # <<>> /\ result'.error = err /\ result'.program = <<>> /\ stack' = <<>>)]_vars

\* 1 ; ) has failed at its third token, after a statement was parsed
C8_Witness ==
  /\ result = Err(NoPrefixParseFn("RParen"))
  /\ Kinds = <<"IntLiteral", "Semicolon", "RParen">>
  /\ pos = 3

(***************************************************************************)
(* C9: parse() terminates on every text: it returns Ok or an error.        *)
(***************************************************************************)
C9_Terminates == <>Done

\* fun ( ) { with its body left open has ended in an error
C9_Witness ==
  /\ Kinds = <<"Fun", "LParen", "RParen", "LBrace">>
  /\ result = Err(NoPrefixParseFn("Eof"))

(***************************************************************************)
(* Spans of the returned tree.                                             *)
(***************************************************************************)
Encloses(outer, inner) == outer.start <= inner.start /\ inner.end <= outer.end

\* the ( that open a grouped expression: those of a successful parse that
\* follow neither a name nor fun
GroupingParens ==
  {i \in 1..Len(tokens) :
     Kinds[i] = "LParen" /\ (i = 1 \/ Kinds[i - 1] \notin {"Identifier", "Fun"})}

\* the ) that closes the ( at token i: the first one from j on at which
\* `depth` open parentheses are all closed (0 when there is none)
RECURSIVE ClosedAt(_, _)
ClosedAt(j, depth) ==
  IF j > Len(tokens)
    THEN 0
    ELSE IF Kinds[j] = "LParen"
      THEN ClosedAt(j + 1, depth + 1)
      ELSE IF Kinds[j] # "RParen"
        THEN ClosedAt(j + 1, depth)
        ELSE IF depth = 1 THEN j ELSE ClosedAt(j + 1, depth - 1)

CloseOf(i) == ClosedAt(i + 1, 1)

\* the span of the parentheses opened at token i
ParenSpan(i) == from_range(tokens[i].span.start, tokens[CloseOf(i)].span.end)

\* the outermost of the pairs of parentheses that hold nothing but the
\* pair opened at token i
RECURSIVE Outermost(_)
Outermost(i) ==
  IF i - 1 \in GroupingParens /\ CloseOf(i - 1) = CloseOf(i) + 1 THEN Outermost(i - 1) ELSE i

\* the node is a grouped expression: its span is that of a pair of parentheses
Parenthesised(node) ==
  LET i == TokenStartingAt(node.span.start)
  IN  i \in GroupingParens /\ node.span = ParenSpan(i)

\* the span the node's own rule gives it
OwnSpan(node) ==
  LET k == node.kind
  IN  CASE k.tag = "Infix" -> node.span = from_range(k.left.span.start, k.right.span.end)
        [] k.tag = "Prefix" ->
             /\ peek_kind(TokenStartingAt(node.span.start)) = prefix_token(k.operator)
             /\ node.span.end = k.expression.span.end
        [] k.tag = "VariableDecl" ->
             /\ peek_kind(TokenStartingAt(node.span.start)) = "Identifier"
             /\ slice(tokens[TokenStartingAt(node.span.start)].span) = k.name
             /\ node.span.end = k.value.span.end
        [] OTHER -> TRUE

WellNested(node) ==
  /\ node.span.start <= node.span.end
  /\ \A j \in 1..Len(SubExpressions(node)) : Encloses(node.span, SubExpressions(node)[j].span)

HasSpan(span) == \E n \in 1..Len(ProgramNodes) : ProgramNodes[n].span = span

(***************************************************************************)
(* C10 as claimed: in a returned tree every node's span has start <= end   *)
(* and encloses its sub-expressions' spans; an Infix node's span runs from *)
(* its left operand's start to its right operand's end, a Prefix node's    *)
(* from the operator's start to the operand's end, a VariableDecl's from   *)
(* the name's start to the value's end, a grouped expression's from its (  *)
(* to its ).                                                               *)
(***************************************************************************)
C10_Original ==
  result.status = "Ok" =>
    /\ \A n \in 1..Len(ProgramNodes) : WellNested(ProgramNodes[n]) /\ OwnSpan(ProgramNodes[n])
    /\ \A i \in GroupingParens : HasSpan(ParenSpan(i))

(***************************************************************************)
(* C10 as amended: the same, except that an Infix, Prefix or VariableDecl  *)
(* node that is a grouped expression has the span of its parentheses, from *)
(* the ( to the ), instead of the span of its own rule, and that of pairs  *)
(* of parentheses directly inside one another the node has the span of the *)
(* outermost pair.                                                         *)
(***************************************************************************)
C10_Spans ==
  result.status = "Ok" =>
    /\ \A n \in 1..Len(ProgramNodes) :
         /\ WellNested(ProgramNodes[n])
         /\ OwnSpan(ProgramNodes[n]) \/ Parenthesised(ProgramNodes[n])
    /\ \A i \in GroupingParens : HasSpan(ParenSpan(Outermost(i)))

\* ( 2 - 4 ) * 6 has been parsed: the product starts at the (, the
\* difference spans the parentheses
C10_Witness ==
  /\ result.status = "Ok"
  /\ Kinds = <<"LParen", "IntLiteral", "Minus", "IntLiteral", "RParen", "Asterisk",
               "IntLiteral">>
  /\ result.program[1].expr.span = from_range(0, 13)
  /\ result.program[1].expr.kind.left.span = from_range(0, 9)
  /\ result.program[1].expr.kind.left.kind.left.span = from_range(2, 3)

=============================================================================
